---- MODULE Spec2Model ----
(***************************************************************************)
(* A model of MongoDBProxy: the DurableCursor (mongo_proxy/                *)
(* durable_cursor.py), which reopens a broken pymongo cursor at the number *)
(* of records already returned, the Executable call wrapper                *)
(* (mongodb_proxy.py), which retries a method on AutoReconnect, and the    *)
(* MongoProxy (mongodb_proxy.py), which hands out Executables for the      *)
(* methods of the connection it wraps.                                     *)
(*                                                                         *)
(* The pymongo collection, its cursors and the wrapped method are the      *)
(* environment: every call into them either answers or raises one of       *)
(* Errors, chosen nondeterministically.  Time is the integer number of     *)
(* seconds since the start of the running retry loop; a sleep of s seconds *)
(* moves it by s plus a drift of 0..MaxDrift seconds.                      *)
(***************************************************************************)
EXTENDS Integers, Sequences, FiniteSets, TLC

\* ------------------------------------------------------------------ bounds

\* Number of documents the query matches in the collection.
NumRecords == 3
\* Largest initial skip and largest limit a cursor is constructed with.
MaxSkip == 1
MaxLimit == 4
\* The larger of the two max_reconnect_time values cursors are built with.
MaxReconnectTime == 7
\* A sleep (and the attempt after it) may take up to MaxDrift seconds longer
\* than the interval asked for.
MaxDrift == 1
\* History counters stop counting at CountCap; try_reconnect's attempts
\* counter, which only feeds the log, stops at AttemptsCap.
CountCap == 2
AttemptsCap == 12
\* The largest explicit wait_time an Executable is constructed with.
MaxWaitTime == 5
\* The longest chain of member and indexed accesses made from a root proxy.
MaxDepth == 3

\* --------------------------------------------------------- program constants

MAX_SLEEP == 5
RECONNECT_INITIAL_DELAY == 1
\* Executable.__init__: self.wait_time = wait_time or 60
DEFAULT_WAIT_TIME == 60

Min(a, b) == IF a < b THEN a ELSE b
Max(a, b) == IF a > b THEN a ELSE b
Bump(x, cap) == IF x < cap THEN x + 1 ELSE x

\* --------------------------------------------------------------- exceptions

\* Messages an OperationFailure may carry, and the test
\* 'interrupted at shutdown' in str(exc.args[0]).
Messages == {"interrupted at shutdown", "not authorized"}
InterruptedAtShutdown(msg) == msg = "interrupted at shutdown"

NoError == [cls |-> "None", msg |-> ""]
AutoReconnect == [cls |-> "AutoReconnect", msg |-> ""]
StopIteration == [cls |-> "StopIteration", msg |-> ""]
MongoReconnectFailure == [cls |-> "MongoReconnectFailure", msg |-> ""]

\* What the backing store may raise: the four retryable classes, a plain
\* OperationFailure with either message, and an error of some other class.
Errors ==
    {[cls |-> c, msg |-> ""] :
        c \in {"AutoReconnect", "CursorNotFound", "ExecutionTimeout",
               "WTimeoutError", "ValueError"}}
    \cup {[cls |-> "OperationFailure", msg |-> m] : m \in Messages}

RETRYABLE_OPERATION_FAILURE_CLASSES ==
    {"AutoReconnect", "CursorNotFound", "ExecutionTimeout", "WTimeoutError"}

\* isinstance(e, OperationFailure): the class and its pymongo subclasses.
IsOperationFailure(e) ==
    e.cls \in {"OperationFailure", "CursorNotFound", "ExecutionTimeout",
               "WTimeoutError"}

IsAutoReconnect(e) == e.cls = "AutoReconnect"

\* (mutant: every OperationFailure starts a recovery, whatever its message)
WithRetryRecovers_AnyMessage(e) ==
    e.cls \in RETRYABLE_OPERATION_FAILURE_CLASSES \/ IsOperationFailure(e)
\* _with_retry's except clauses, in order: does the error start a recovery?
WithRetryRecovers(e) ==
    IF e.cls \in RETRYABLE_OPERATION_FAILURE_CLASSES THEN TRUE
    ELSE IF IsOperationFailure(e) THEN InterruptedAtShutdown(e.msg)
    ELSE FALSE

\* ------------------------------------------------------ the backing store

\* The document at 0-based position i of the query's result.
Record(i) == 100 + i

\* A backing cursor: the skip and limit of its find, and how many documents
\* have been taken from it.
NewCursor(s, l) == [skip |-> s, limit |-> l, pos |-> 0]

\* How many documents a find with this skip and limit yields (limit 0: all).
Available(cur) ==
    LET rest == Max(0, NumRecords - cur.skip)
    IN  IF cur.limit = 0 THEN rest ELSE Min(cur.limit, rest)

HasNext(cur) == cur.pos < Available(cur)
\* next(cursor) when it answers: the document returned, the cursor after.
CursorRecord(cur) == Record(cur.skip + cur.pos)
\* (mutant: a next() takes two documents off the cursor)
Advance_ByTwo(cur) == [cur EXCEPT !.pos = cur.pos + 2]
Advance(cur) == [cur EXCEPT !.pos = cur.pos + 1]

\* cursor.count(with_limit_and_skip)
CursorCount(cur, with_limit_and_skip) ==
    IF with_limit_and_skip THEN Available(cur) ELSE NumRecords

\* What iterating a backing cursor directly yields.
RECURSIVE Drain(_)
Drain(cur) ==
    IF HasNext(cur) THEN <<CursorRecord(cur)>> \o Drain(Advance(cur))
    ELSE <<>>

VARIABLES
    \* DurableCursor fields
    skip, limit, max_reconnect_time, initial_reconnect_interval,
    disconnect_on_timeout, counter, cursor,
    \* the call in progress: where it is and try_reconnect's locals
    pc, attempts, round, elapsed, interval, disconnected, max_time,
    \* the current or last call: _with_retry's get_next, the keyword argument
    \* of count(), and the error _with_retry caught (NoError when none)
    get_next, with_limit_and_skip, exc,
    \* the outcome of the last finished call
    result,
    \* history: the records next() returned, the arguments of the find of
    \* the reload in progress, the number of finds issued, whether the store
    \* ever raised, the number of records next() returned out of
    \* try_reconnect, and the number of forced disconnects of the call in
    \* progress
    delivered, find_args, nfinds, anyFault, resumed, disconnects,
    \* the argument of the latest time.sleep of the call in progress (0 when
    \* it has not slept)
    last_sleep,
    \* what the latest reload or re-attempt inside try_reconnect raised, in
    \* the current or last call (NoError when it answered or none was made)
    loop_exc,
    \* whether the logger has been called since the call in progress last
    \* caught an error
    logged,
    \* Executable
    wait_time_arg, wait_time, e_pc, e_i, e_delta, e_args, e_result, e_hist,
    \* what the wrapped method raised when it was last invoked (NoError when
    \* it answered or was not invoked yet)
    e_raised,
    \* MongoProxy: the logger and wait_time the root proxy was constructed
    \* with, and the object the latest access returned (the root proxy
    \* before any access)
    root_logger, root_wait_time, held

cursorVars ==
    <<skip, limit, max_reconnect_time, initial_reconnect_interval,
      disconnect_on_timeout, counter, cursor, pc, attempts, round, elapsed,
      interval, disconnected, max_time, get_next, with_limit_and_skip, exc,
      result, delivered, find_args, nfinds, anyFault, resumed, disconnects,
      last_sleep, loop_exc, logged>>
execVars ==
    <<wait_time_arg, wait_time, e_pc, e_i, e_delta, e_args, e_result, e_hist,
      e_raised>>
proxyVars == <<root_logger, root_wait_time, held>>
vars == <<cursorVars, execVars, proxyVars>>

\* ------------------------------------------------------------ DurableCursor

Return(type, val) == [kind |-> "return", type |-> type, val |-> val, err |-> NoError]
Raise(e) == [kind |-> "raise", type |-> "none", val |-> 0, err |-> e]
NoResult == [kind |-> "none", type |-> "none", val |-> 0, err |-> NoError]

\* What the store does when called: answer (NoError) or raise.
Answers == Errors \cup {NoError}

\* Python's True, which equals 1.
PyTrue == 1

NoFind == [skip |-> -1, limit |-> -1]

\* fetch_cursor: limit_is_zero and the limit passed to find.
LimitIsZero(count) == limit # 0 /\ limit - (count - skip) <= 0
\* (mutant: the initial skip is not taken off the count)
EffectiveLimit_SkipForgotten(count) ==
    IF limit # 0
    THEN IF limit - count <= 0 THEN 1 ELSE limit - count
    ELSE 0
\* (mutant: the remaining limit is passed on as it is, 0 included)
EffectiveLimit_Unfloored(count) ==
    IF limit # 0 THEN Max(0, limit - (count - skip)) ELSE 0
EffectiveLimit(count) ==
    IF limit # 0
    THEN IF limit - (count - skip) <= 0 THEN 1 ELSE limit - (count - skip)
    ELSE 0

\* fetch_cursor once find has answered: the cursor returned, one document
\* already taken from it (next(cursor, None)) when limit_is_zero.
FetchedCursor(count) ==
    LET cur == NewCursor(count, EffectiveLimit(count))
    IN  IF LimitIsZero(count) /\ HasNext(cur) THEN Advance(cur) ELSE cur

\* reload_cursor: the count it passes to fetch_cursor.
\* (mutant: the reload starts over from the initial skip)
ReloadCount_InitialSkip == skip
ReloadCount == counter

\* __next__: the counter after a record was obtained.
\* (mutant: the increment is forgotten)
CounterAfterNext_Same(c) == c
CounterAfterNext(c) == c + 1

\* try_reconnect, line 205: return next(self.cursor) if get_next else True
\* (mutant: the reload fetches a record for count() too)
RetryFetches_Always == TRUE
RetryFetches == get_next
ReconnectFlag == Return("bool", PyTrue)

\* try_reconnect, line 230: what is raised once the loop is left.
\* (mutant: the AutoReconnect last caught is raised again)
Exhausted_Reraise == AutoReconnect
Exhausted == MongoReconnectFailure

\* try_reconnect: the budget test, the give-up test and the next interval.
\* (mutant: the budget counts as exceeded once it is reached)
OverBudget_AtBudget == elapsed >= max_time
OverBudget == elapsed > max_time
\* (mutant: the disconnected flag is not consulted)
GiveUp_IgnoresFlag == ~disconnect_on_timeout
GiveUp == ~disconnect_on_timeout \/ disconnected
NextInterval(i) == Min(i * 2, MAX_SLEEP)

\* The call has returned or raised: its locals are gone.
LocalsAtRest ==
    /\ pc' = "idle"
    /\ attempts' = 0
    /\ round' = 1
    /\ elapsed' = 0
    /\ interval' = 0
    /\ disconnected' = FALSE
    /\ max_time' = 0
    /\ find_args' = NoFind
    /\ disconnects' = 0
    /\ last_sleep' = 0
    /\ logged' = FALSE

UnchangedLocals ==
    UNCHANGED <<attempts, round, elapsed, interval, disconnected, max_time,
                disconnects, last_sleep>>

UnchangedCall == UNCHANGED <<get_next, with_limit_and_skip, exc>>

\* _with_retry(get_next, f, **kwargs) is entered.
CallStarts(gn, wls, e) ==
    /\ get_next' = gn
    /\ with_limit_and_skip' = wls
    /\ exc' = e
    /\ loop_exc' = NoError

UnchangedConfig ==
    UNCHANGED <<skip, limit, max_reconnect_time, initial_reconnect_interval,
                disconnect_on_timeout>>

\* A call ends by raising e to the caller.
Propagate(e) ==
    /\ result' = Raise(e)
    /\ LocalsAtRest
    /\ UNCHANGED <<counter, delivered, resumed>>

\* __next__ got a record from cursor cur (self.cursor, directly or inside
\* try_reconnect): count it and return it.
ReturnRecord(cur) ==
    /\ cursor' = Advance(cur)
    /\ counter' = CounterAfterNext(counter)
    /\ delivered' = Append(delivered, CursorRecord(cur))
    /\ result' = Return("record", CursorRecord(cur))
    /\ resumed' = IF pc = "idle" THEN resumed ELSE Bump(resumed, CountCap)
    /\ LocalsAtRest

\* _with_retry caught a recoverable error e and logged it (lines 163-166,
\* 175-178): try_reconnect starts.
EnterTryReconnect ==
    /\ pc' = "reload"
    /\ attempts' = 0
    /\ round' = 1
    /\ elapsed' = 0
    /\ interval' = initial_reconnect_interval
    /\ disconnected' = FALSE
    /\ max_time' = max_reconnect_time
    /\ result' = NoResult
    /\ last_sleep' = 0
    /\ logged' = TRUE
    /\ UNCHANGED <<counter, cursor, delivered, resumed, find_args,
                   disconnects>>

\* try_reconnect, line 208: except AutoReconnect
\* (mutant: the clause catches all the retryable classes)
LoopCatches_Retryable(e) == e.cls \in RETRYABLE_OPERATION_FAILURE_CLASSES
LoopCatches(e) == IsAutoReconnect(e)

\* An error raised inside try_reconnect's try block, after a find with
\* arguments fa.
RaisedInTryReconnect(e, fa) ==
    IF LoopCatches(e)
    THEN /\ pc' = "except"
         /\ find_args' = fa
         /\ logged' = FALSE
         /\ UNCHANGED <<counter, cursor, delivered, resumed, result>>
         /\ UnchangedLocals
    ELSE /\ Propagate(e)
         /\ UNCHANGED cursor

\* next(): _with_retry(get_next=True, f=lambda: next(self.cursor))
NextCall ==
    /\ pc = "idle"
    /\ \E e \in Answers :
        /\ anyFault' = (anyFault \/ e # NoError)
        /\ CallStarts(TRUE, FALSE, IF WithRetryRecovers(e) THEN e ELSE NoError)
        /\ IF e = NoError
           THEN IF HasNext(cursor)
                THEN ReturnRecord(cursor)
                ELSE Propagate(StopIteration) /\ UNCHANGED cursor
           ELSE IF WithRetryRecovers(e)
           THEN EnterTryReconnect
           ELSE Propagate(e) /\ UNCHANGED cursor
    /\ UNCHANGED nfinds
    /\ UnchangedConfig

\* count(): _with_retry(get_next=False, f=self.cursor.count, ...)
CountCall ==
    /\ pc = "idle"
    /\ \E wls \in BOOLEAN, e \in Answers :
        /\ anyFault' = (anyFault \/ e # NoError)
        /\ CallStarts(FALSE, wls, IF WithRetryRecovers(e) THEN e ELSE NoError)
        /\ IF e = NoError
           THEN /\ result' = Return("int", CursorCount(cursor, wls))
                /\ LocalsAtRest
                /\ UNCHANGED <<counter, cursor, delivered, resumed>>
           ELSE IF WithRetryRecovers(e)
           THEN EnterTryReconnect
           ELSE Propagate(e) /\ UNCHANGED cursor
    /\ UNCHANGED nfinds
    /\ UnchangedConfig

\* try_reconnect, line 204: self.reload_cursor().  find may raise, and so
\* may the next(cursor, None) of fetch_cursor; self.cursor is assigned only
\* when fetch_cursor returns.
ReloadCursor ==
    /\ pc = "reload"
    /\ nfinds' = Bump(nfinds, CountCap)
    /\ \E e \in Answers, discarding \in BOOLEAN :
        /\ anyFault' = (anyFault \/ e # NoError)
        /\ loop_exc' = e
        /\ IF e = NoError
           THEN /\ ~discarding
                /\ find_args' = [skip |-> ReloadCount,
                                 limit |-> EffectiveLimit(ReloadCount)]
                /\ cursor' = FetchedCursor(ReloadCount)
                /\ pc' = "retry"
                /\ UNCHANGED <<counter, delivered, resumed, result, logged>>
                /\ UnchangedLocals
           ELSE /\ discarding => LimitIsZero(ReloadCount)
                /\ RaisedInTryReconnect(e, [skip |-> ReloadCount,
                                            limit |-> EffectiveLimit(ReloadCount)])
    /\ UnchangedCall
    /\ UnchangedConfig

\* try_reconnect, line 205: return next(self.cursor) if get_next else True
RetryOperation ==
    /\ pc = "retry"
    /\ IF RetryFetches
       THEN \E e \in Answers :
            /\ anyFault' = (anyFault \/ e # NoError)
            /\ loop_exc' = e
            /\ IF e = NoError
               THEN IF HasNext(cursor)
                    THEN ReturnRecord(cursor)
                    ELSE Propagate(StopIteration) /\ UNCHANGED cursor
               ELSE RaisedInTryReconnect(e, find_args)
       ELSE /\ result' = ReconnectFlag
            /\ LocalsAtRest
            /\ UNCHANGED <<counter, cursor, delivered, anyFault, resumed,
                           loop_exc>>
    /\ UNCHANGED nfinds
    /\ UnchangedCall
    /\ UnchangedConfig

\* try_reconnect, lines 208-230: the except AutoReconnect clause, with the
\* break and the raise MongoReconnectFailure() after the loop.
ExceptAutoReconnect ==
    /\ pc = "except"
    /\ IF OverBudget /\ GiveUp
       THEN Propagate(Exhausted)
       ELSE \E drift \in 0 .. MaxDrift :
            LET escalate == OverBudget
                slept == IF escalate THEN initial_reconnect_interval ELSE interval
            IN  /\ disconnected' = (disconnected \/ escalate)
                /\ disconnects' = IF escalate THEN Bump(disconnects, CountCap)
                                  ELSE disconnects
                /\ round' = IF escalate THEN 2 ELSE round
                /\ max_time' = IF escalate THEN max_time * 2 ELSE max_time
                /\ last_sleep' = slept
                /\ logged' = TRUE
                /\ elapsed' = elapsed + slept + drift
                /\ interval' = NextInterval(slept)
                /\ attempts' = Bump(IF escalate THEN 0 ELSE attempts, AttemptsCap)
                /\ pc' = "reload"
                /\ UNCHANGED <<counter, delivered, resumed, result, find_args>>
    /\ UNCHANGED <<cursor, nfinds, anyFault, loop_exc>>
    /\ UnchangedCall
    /\ UnchangedConfig

\* The state after DurableCursor(collection, skip=s, limit=l,
\* max_reconnect_time=mrt, initial_reconnect_interval=iri,
\* disconnect_on_timeout=dot): the constructor has fetched the first cursor
\* at counter = skip.
Constructed(s, l, mrt, iri, dot) ==
    /\ skip = s
    /\ limit = l
    /\ max_reconnect_time = mrt
    /\ initial_reconnect_interval = iri
    /\ disconnect_on_timeout = dot
    /\ counter = skip
    /\ cursor = FetchedCursor(counter)
    /\ find_args = NoFind
    /\ nfinds = 1
    /\ pc = "idle"
    /\ get_next = TRUE
    /\ with_limit_and_skip = FALSE
    /\ exc = NoError
    /\ attempts = 0
    /\ round = 1
    /\ elapsed = 0
    /\ interval = 0
    /\ disconnected = FALSE
    /\ max_time = 0
    /\ result = NoResult
    /\ delivered = <<>>
    /\ anyFault = FALSE
    /\ resumed = 0
    /\ disconnects = 0
    /\ last_sleep = 0
    /\ loop_exc = NoError
    /\ logged = FALSE

\* The initial reconnect intervals cursors are built with: none, the
\* default, and one above MAX_SLEEP.
Intervals == {0, RECONNECT_INITIAL_DELAY, MAX_SLEEP + 1}

\* Cursors are built either with varied skip and limit and a short reconnect
\* budget, or with varied reconnect settings and no skip or limit.
InitCursor ==
    \E dot \in BOOLEAN :
        \/ \E s \in 0 .. MaxSkip, l \in {0, 2, MaxLimit} :
               Constructed(s, l, 2, RECONNECT_INITIAL_DELAY, dot)
        \/ \E iri \in Intervals :
               Constructed(0, 0, MaxReconnectTime, iri, dot)

\* --------------------------------------------------------------- Executable

\* The wait_time argument when none is given (None).
NoneArg == -1
\* Executable.__init__: self.wait_time = wait_time or 60
Falsy(a) == a = NoneArg \/ a = 0
WaitTimeOr(a) == IF Falsy(a) THEN DEFAULT_WAIT_TIME ELSE a

\* pow(2, i)
RECURSIVE Pow2(_)
Pow2(i) == IF i = 0 THEN 1 ELSE 2 * Pow2(i - 1)

\* The arguments a caller passes and what the wrapped method returns for them
\* when it answers.
Args == {1, 2}
MethodValue(a) == 10 * a

\* __call__, line 37: except pymongo.errors.AutoReconnect
\* (mutant: the clause catches every OperationFailure as well)
ExecCatches_OperationFailure(e) == IsAutoReconnect(e) \/ IsOperationFailure(e)
ExecCatches(e) == IsAutoReconnect(e)

\* __call__, line 40: the test that ends the guarded loop.
BudgetSpent == e_delta >= wait_time
\* __call__, line 44: the sleep before the next guarded call.
\* (mutant: 2 * i for pow(2, i))
SleepBefore_Times2(i) == 2 * i
SleepBefore(i) == Pow2(i)

Called(a) == [ev |-> "call", n |-> a]
Slept(n) == [ev |-> "sleep", n |-> n]
Logged(i) == [ev |-> "warning", n |-> i]

\* Executable.__call__(*args): start = time.time(); i = 0
ExecCall ==
    /\ e_pc = "idle"
    /\ \E a \in Args : e_args' = a
    /\ e_pc' = "try"
    /\ e_i' = 0
    /\ e_delta' = 0
    /\ e_result' = NoResult
    /\ e_hist' = <<>>
    /\ e_raised' = NoError
    /\ UNCHANGED <<wait_time_arg, wait_time>>

\* A call ends: its locals are gone.
ExecDone(res) ==
    /\ e_pc' = "idle"
    /\ e_result' = res
    /\ e_i' = 0
    /\ e_delta' = 0

\* __call__, lines 35-39: return self.method(*args, **kwargs) inside the
\* try; the call takes up to MaxDrift seconds.
ExecTry ==
    /\ e_pc = "try"
    /\ e_hist' = Append(e_hist, Called(e_args))
    /\ \E e \in Answers :
        /\ e_raised' = e
        /\ IF e = NoError
           THEN ExecDone(Return("value", MethodValue(e_args)))
           ELSE IF ExecCatches(e)
           THEN /\ \E took \in 0 .. MaxDrift : e_delta' = e_delta + took
                /\ e_pc' = "except"
                /\ UNCHANGED <<e_i, e_result>>
           ELSE ExecDone(Raise(e))
    /\ UNCHANGED <<wait_time_arg, wait_time, e_args>>

\* __call__, lines 40-45: break, or warn, sleep and count the retry.
ExecExcept ==
    /\ e_pc = "except"
    /\ IF BudgetSpent
       THEN /\ e_pc' = "final"
            /\ UNCHANGED <<e_i, e_delta, e_hist>>
       ELSE /\ e_hist' = e_hist \o <<Logged(e_i), Slept(SleepBefore(e_i))>>
            /\ e_delta' = e_delta + SleepBefore(e_i)
            /\ e_i' = e_i + 1
            /\ e_pc' = "try"
    /\ UNCHANGED <<wait_time_arg, wait_time, e_args, e_result, e_raised>>

\* __call__, line 48: the last call, outside any try.
ExecFinal ==
    /\ e_pc = "final"
    /\ e_hist' = Append(e_hist, Called(e_args))
    /\ \E e \in Answers :
        /\ e_raised' = e
        /\ IF e = NoError
           THEN ExecDone(Return("value", MethodValue(e_args)))
           ELSE ExecDone(Raise(e))
    /\ UNCHANGED <<wait_time_arg, wait_time, e_args>>

\* The state after Executable(method, logger, wait_time).
InitExec ==
    /\ wait_time_arg \in {NoneArg, 0, 1, MaxWaitTime}
    /\ wait_time = WaitTimeOr(wait_time_arg)
    /\ e_pc = "idle"
    /\ e_i = 0
    /\ e_delta = 0
    /\ e_args = 1
    /\ e_result = NoResult
    /\ e_hist = <<>>
    /\ e_raised = NoError

\* No Executable call is ever made: one wrapper, left alone.
ExecAtRest == InitExec /\ wait_time_arg = NoneArg

\* No DurableCursor call is ever made: one cursor, left alone.
CursorAtRest ==
    Constructed(0, 0, MaxReconnectTime, RECONNECT_INITIAL_DELAY, TRUE)

\* --------------------------------------------------------------- MongoProxy

\* The objects behind the proxy: the connection, and whatever getattr and
\* indexing reach from it.  An object is known by the accesses that lead to
\* it from the connection, and is invokable (has __call__) or not.
Access(op, key) == [op |-> op, key |-> key]
Conn == [path |-> <<>>, callable |-> TRUE]
Reached(conn, op, key, callable) ==
    [path |-> Append(conn.path, Access(op, key)), callable |-> callable]
HasCall(obj) == obj.callable

\* The names the client asks for; 'find' is a method of
\* pymongo.collection.Collection, 'users' is not.
AttrKeys == {"find", "users"}
ItemKeys == {"users"}
EXECUTABLE_MONGO_METHODS == {"find"}

\* logging.getLogger(__name__), and the loggers a caller may pass (None or
\* its own).
NoLogger == "None"
ModuleLogger == "mongodb_proxy"
Loggers == {NoLogger, "app"}

\* MongoProxy.__init__(conn, logger=None, wait_time=None)
MongoProxyInit(conn, logger, wt) ==
    [kind |-> "MongoProxy", obj |-> conn,
     logger |-> IF logger = NoLogger THEN ModuleLogger ELSE logger,
     wait_time |-> wt]

\* Executable.__init__(method, logger, wait_time=None)
ExecutableInit(method, logger, wt) ==
    [kind |-> "Executable", obj |-> method, logger |-> logger,
     wait_time |-> WaitTimeOr(wt)]

\* An object handed to the caller as it is.
Raw(obj) ==
    [kind |-> "raw", obj |-> obj, logger |-> NoLogger, wait_time |-> NoneArg]

\* __getattr__, lines 96-101, for attr = getattr(self.conn, key).
\* (mutant: a listed name is wrapped whether its value is invokable or not)
GetAttrResult_ListedAlwaysWrapped(self, key, attr) ==
    IF key \in EXECUTABLE_MONGO_METHODS
    THEN ExecutableInit(attr, self.logger, self.wait_time)
    ELSE IF HasCall(attr) THEN MongoProxyInit(attr, NoLogger, NoneArg)
    ELSE Raw(attr)
GetAttrResult(self, key, attr) ==
    IF HasCall(attr)
    THEN IF key \in EXECUTABLE_MONGO_METHODS
         THEN ExecutableInit(attr, self.logger, self.wait_time)
         ELSE MongoProxyInit(attr, NoLogger, NoneArg)
    ELSE Raw(attr)

\* __getitem__, lines 84-86, for item = self.conn[key].
GetItemResult(self, item) ==
    IF HasCall(item) THEN MongoProxyInit(item, NoLogger, NoneArg)
    ELSE Raw(item)

\* proxy.key, for the proxy the caller holds.
GetAttr ==
    /\ held.kind = "MongoProxy"
    /\ Len(held.obj.path) < MaxDepth
    /\ \E key \in AttrKeys, callable \in BOOLEAN :
           held' = GetAttrResult(held, key,
                                 Reached(held.obj, "attr", key, callable))
    /\ UNCHANGED <<root_logger, root_wait_time>>

\* proxy[key], for the proxy the caller holds.
GetItem ==
    /\ held.kind = "MongoProxy"
    /\ Len(held.obj.path) < MaxDepth
    /\ \E key \in ItemKeys, callable \in BOOLEAN :
           held' = GetItemResult(held, Reached(held.obj, "item", key, callable))
    /\ UNCHANGED <<root_logger, root_wait_time>>

\* The state after MongoProxy(conn, logger, wait_time).
InitProxy ==
    /\ root_logger \in Loggers
    /\ root_wait_time \in {NoneArg, 0, 1, MaxWaitTime}
    /\ held = MongoProxyInit(Conn, root_logger, root_wait_time)

\* No access is ever made: one proxy, left alone.
ProxyAtRest == InitProxy /\ root_logger = NoLogger /\ root_wait_time = NoneArg

\* ------------------------------------------------------- the specifications

\* A DurableCursor driven by any sequence of next() and count() calls.
Init == InitCursor /\ ExecAtRest /\ ProxyAtRest

Next ==
    \/ NextCall /\ UNCHANGED <<execVars, proxyVars>>
    \/ CountCall /\ UNCHANGED <<execVars, proxyVars>>
    \/ ReloadCursor /\ UNCHANGED <<execVars, proxyVars>>
    \/ RetryOperation /\ UNCHANGED <<execVars, proxyVars>>
    \/ ExceptAutoReconnect /\ UNCHANGED <<execVars, proxyVars>>

Spec == Init /\ [][Next]_vars

\* The same, with the call in progress running on: next() and count() are
\* synchronous, so a started call keeps taking its steps.  Termination does
\* not depend on the query, so this one is checked for cursors over the last
\* record of the collection, with every reconnect setting.
Running == (ReloadCursor \/ RetryOperation \/ ExceptAutoReconnect)
           /\ UNCHANGED <<execVars, proxyVars>>
FairInit ==
    /\ \E dot \in BOOLEAN, iri \in Intervals, mrt \in {2, MaxReconnectTime} :
           Constructed(NumRecords - 1, 0, mrt, iri, dot)
    /\ ExecAtRest
    /\ ProxyAtRest
FairSpec == FairInit /\ [][Next]_vars /\ WF_vars(Running)

\* An Executable called any number of times.
ExecInit == CursorAtRest /\ InitExec /\ ProxyAtRest

ExecNext ==
    \/ ExecCall /\ UNCHANGED <<cursorVars, proxyVars>>
    \/ ExecTry /\ UNCHANGED <<cursorVars, proxyVars>>
    \/ ExecExcept /\ UNCHANGED <<cursorVars, proxyVars>>
    \/ ExecFinal /\ UNCHANGED <<cursorVars, proxyVars>>

ExecSpec == ExecInit /\ [][ExecNext]_vars

\* A root MongoProxy and the chains of accesses made from it.
ProxyInit == CursorAtRest /\ ExecAtRest /\ InitProxy

ProxyNext ==
    \/ GetAttr /\ UNCHANGED <<cursorVars, execVars>>
    \/ GetItem /\ UNCHANGED <<cursorVars, execVars>>

ProxySpec == ProxyInit /\ [][ProxyNext]_vars

\* ------------------------------------------------------------- properties

IsPrefix(s, t) == Len(s) <= Len(t) /\ \A i \in 1 .. Len(s) : s[i] = t[i]

\* The documents the query matches from the initial skip on, in order.
FromSkip == [i \in 1 .. Max(0, NumRecords - skip) |-> Record(skip + i - 1)]

EndOfSequence == result = Raise(StopIteration)

\* C1: whatever retryable failures next() recovered from, the records
\* returned so far are the query's records from the initial skip on, in
\* their order, none twice and none left out; the record a recovering next()
\* returns is the one at the counter's position; and when next() signals the
\* end of an unlimited query every record has been returned.
C1_ResumeKeepsOrder ==
    /\ [](/\ IsPrefix(delivered, FromSkip)
          /\ (EndOfSequence /\ limit = 0) => delivered = FromSkip)
    /\ [][(pc = "retry" /\ result'.type = "record")
            => /\ result'.val = Record(counter)
               /\ delivered' = Append(delivered, Record(counter))]_vars

\* C1 happens: next() recovered twice, the last time from an operation
\* failure "interrupted at shutdown", and all records were returned.
C1_Witness ==
    /\ resumed = 2
    /\ exc = [cls |-> "OperationFailure", msg |-> "interrupted at shutdown"]
    /\ result.type = "record"
    /\ skip = 0 /\ limit = 0
    /\ Len(delivered) = NumRecords

\* C2: the counter is the initial skip plus the number of records returned,
\* never decreases, is left alone by a call that raises, and is the skip of
\* every find a reload issues.
C2_CounterIsPosition ==
    /\ [](/\ counter = skip + Len(delivered)
          /\ find_args # NoFind => find_args.skip = counter)
    /\ [][/\ counter' >= counter
          /\ counter' = counter + (IF delivered' # delivered THEN 1 ELSE 0)
          /\ result'.kind = "raise" => counter' = counter]_vars

\* C2 happens: a reload has issued its find after two records were returned.
C2_Witness ==
    /\ pc = "retry"
    /\ Len(delivered) = 2
    /\ find_args.skip = skip + 2

\* C3: with a limit, next() returns at most min(limit, records after the
\* initial skip) records and exactly that many once it signals the end; no
\* find is issued with limit 0; and the operation retried on a cursor
\* reopened after limit records ends the sequence unless the store raises.
C3_LimitIsExact ==
    /\ [](limit > 0 =>
            /\ Len(delivered) <= Min(limit, Len(FromSkip))
            /\ EndOfSequence => Len(delivered) = Min(limit, Len(FromSkip))
            /\ find_args # NoFind => find_args.limit > 0)
    /\ [][(/\ limit > 0
           /\ pc = "retry"
           /\ get_next
           /\ counter - skip >= limit
           /\ pc' = "idle")
            => \/ result' = Raise(StopIteration)
               \/ result'.err \in Errors]_vars

\* C3 happens: the cursor was reopened after limit records, with a find of
\* limit 1 and its one document discarded.
C3_Witness ==
    /\ pc = "retry"
    /\ get_next
    /\ limit = 2
    /\ Len(delivered) = 2
    /\ find_args = [skip |-> counter, limit |-> 1]
    /\ cursor.pos = 1

\* C4 as stated: with the clock moving by at least the slept interval at
\* each sleep, every started call ends, the reconnect loop ends only by
\* raising MongoReconnectFailure, and AutoReconnect never reaches the caller.
C4_ReconnectLoopEnds ==
    /\ (pc # "idle") ~> (pc = "idle")
    /\ [][(pc = "except" /\ pc' = "idle")
            => result' = Raise(MongoReconnectFailure)]_vars
    /\ [](result.err # AutoReconnect)

\* C4, amended: the same for a cursor whose initial_reconnect_interval is
\* positive.
C4_ReconnectLoopEndsIfIntervalPositive ==
    /\ (pc # "idle" /\ initial_reconnect_interval > 0) ~> (pc = "idle")
    /\ [][(pc = "except" /\ pc' = "idle")
            => result' = Raise(MongoReconnectFailure)]_vars
    /\ [](result.err # AutoReconnect)

\* C4 happens: a call of a cursor with a positive interval and
\* disconnect_on_timeout has ended with MongoReconnectFailure.
C4_Witness ==
    /\ result = Raise(MongoReconnectFailure)
    /\ initial_reconnect_interval > 0
    /\ disconnect_on_timeout
    /\ max_reconnect_time = MaxReconnectTime

\* C5: a reconnect loop forces at most one disconnect: none without
\* disconnect_on_timeout, none before the round-1 budget is exceeded, and
\* exactly one by the time a loop with disconnect_on_timeout gives up.
C5_DisconnectAtMostOnce ==
    /\ [](/\ disconnects <= 1
          /\ ~disconnect_on_timeout => disconnects = 0
          /\ disconnects > 0 => elapsed > max_reconnect_time)
    /\ [][(pc = "except" /\ pc' = "idle")
            => disconnects = (IF disconnect_on_timeout THEN 1 ELSE 0)]_vars

\* C5 happens: a loop with disconnect_on_timeout is past its doubled budget,
\* about to give up, having disconnected once.
C5_Witness ==
    /\ pc = "except"
    /\ disconnect_on_timeout
    /\ elapsed > 2 * max_reconnect_time
    /\ disconnects = 1

\* The errors the spec classifies NonRetryable.
NonRetryable(e) ==
    /\ e \in Errors
    /\ e.cls \notin {"AutoReconnect", "CursorNotFound", "ExecutionTimeout",
                     "WTimeoutError"}
    /\ ~(e.cls = "OperationFailure" /\ e.msg = "interrupted at shutdown")

\* C6: the error a call recovers from is never a NonRetryable one, and the
\* next() that raises a NonRetryable error ends at once with the counter,
\* the backing cursor and the number of finds issued as they were.
C6_NonRetryablePropagates ==
    /\ [](~NonRetryable(exc))
    /\ [][(pc = "idle" /\ get_next' /\ result'.kind = "raise"
           /\ NonRetryable(result'.err))
            => /\ pc' = "idle"
               /\ counter' = counter
               /\ cursor' = cursor
               /\ nfinds' = nfinds
               /\ find_args' = NoFind]_vars

\* C6 happens: next() raised an OperationFailure without the shutdown message
\* on the second record, with no find issued since construction.
C6_Witness ==
    /\ pc = "idle"
    /\ get_next
    /\ result = Raise([cls |-> "OperationFailure", msg |-> "not authorized"])
    /\ counter = skip + 1
    /\ nfinds = 1

\* C7 as stated: a count() that returns, directly or after a recovery,
\* returns the count of the cursor the DurableCursor then holds.
C7_CountReturnsCursorCount ==
    (pc = "idle" /\ ~get_next /\ result.kind = "return")
        => result.val = CursorCount(cursor, with_limit_and_skip)

\* What next(cur) gives when the store answers: a record, or 0 at the end.
NextOutcome(cur) == IF HasNext(cur) THEN CursorRecord(cur) ELSE 0

\* C8: no step of a count() call changes the counter, returns a record, or
\* changes what the next next() on the backing cursor gives.
C8_CountLeavesPosition ==
    [][((pc = "idle" /\ ~get_next') \/ (pc # "idle" /\ ~get_next))
        => /\ counter' = counter
           /\ delivered' = delivered
           /\ NextOutcome(cursor') = NextOutcome(cursor)]_vars

\* C8 happens: a count() recovered through a reload after one record, and
\* the cursor it left is a reopened one.
C8_Witness ==
    /\ pc = "idle"
    /\ ~get_next
    /\ result = ReconnectFlag
    /\ counter = skip + 1
    /\ cursor.skip = counter

\* C9: as long as the store has never raised, the records returned are the
\* first ones of what a backing cursor opened with the same skip and limit
\* yields, all of them once next() signals the end, and only the
\* constructor's find has been issued.
C9_NoFailureSameAsBacking ==
    ~anyFault =>
        /\ IsPrefix(delivered, Drain(NewCursor(skip, limit)))
        /\ EndOfSequence => delivered = Drain(NewCursor(skip, limit))
        /\ nfinds = 1

\* C9 happens: a cursor with a skip and a limit was iterated to its end with
\* no failure.
C9_Witness ==
    /\ ~anyFault
    /\ EndOfSequence
    /\ skip = 1
    /\ limit = 2
    /\ Len(delivered) = 2

\* The sleeps and the invocations of the method in the current or last
\* Executable call, in order.
SleepsOf(h) == SelectSeq(h, LAMBDA x : x.ev = "sleep")
CallsOf(h) == SelectSeq(h, LAMBDA x : x.ev = "call")
PowersOfTwo == <<1, 2, 4, 8, 16, 32, 64, 128>>
\* The budget of a wrapper built with a positive wait_time or with none.
BudgetGiven == IF wait_time_arg = NoneArg THEN 60 ELSE wait_time_arg

\* C10: for a wrapper built with a positive wait_time or none (60): the
\* sleeps are 1, 2, 4, ... seconds, one before each retry; an AutoReconnect
\* caught with less than the budget elapsed is followed by the next sleep and
\* retry, one caught at or past it by the final call and no sleep; the final
\* call is the last one and its outcome is the call's; a value is returned
\* straight after the invocation that gave it; and every invocation gets the
\* caller's arguments.
C10_BoundedBackoffThenFinalCall ==
    /\ [](wait_time_arg # 0 =>
            LET sl == SleepsOf(e_hist)
                ca == CallsOf(e_hist)
            IN  /\ Len(sl) <= Len(PowersOfTwo)
                /\ \A k \in 1 .. Len(sl) : sl[k].n = PowersOfTwo[k]
                /\ \A k \in 1 .. Len(ca) : ca[k].n = e_args
                /\ e_pc = "try" => Len(ca) = Len(sl)
                /\ e_pc \in {"except", "final"} => Len(ca) = Len(sl) + 1
                /\ e_pc = "final" => e_delta >= BudgetGiven
                /\ (e_pc = "idle" /\ e_result.kind # "none") =>
                      /\ Len(ca) \in {Len(sl) + 1, Len(sl) + 2}
                      /\ e_hist[Len(e_hist)].ev = "call"
                /\ (e_pc = "idle" /\ e_result.kind = "return") =>
                      e_result.val = MethodValue(e_args))
    /\ [][(wait_time_arg # 0 /\ e_pc = "except") =>
            IF e_delta < BudgetGiven
            THEN /\ e_pc' = "try"
                 /\ Len(e_hist') = Len(e_hist) + 2
                 /\ e_hist'[Len(e_hist')] = Slept(PowersOfTwo[e_i + 1])
            ELSE /\ e_pc' = "final"
                 /\ e_hist' = e_hist]_vars
    /\ [][(wait_time_arg # 0 /\ e_pc = "final") =>
            /\ e_pc' = "idle"
            /\ e_hist' = Append(e_hist, Called(e_args))
            /\ e_result'.kind \in {"return", "raise"}]_vars

\* C10 happens: a wrapper built with no wait_time slept 1, 2, 4, 8, 16 and
\* 32 seconds, made its final call, and that call's AutoReconnect reached
\* the caller.
C10_Witness ==
    /\ wait_time_arg = NoneArg
    /\ e_pc = "idle"
    /\ e_result = Raise(AutoReconnect)
    /\ Len(SleepsOf(e_hist)) = 6
    /\ SleepsOf(e_hist)[6] = Slept(32)
    /\ Len(CallsOf(e_hist)) = 8

\* C11: whenever the wrapped method has raised anything but AutoReconnect,
\* on a guarded attempt or on the final call, the call has ended with that
\* very error and the invocation that raised it is the last thing the call
\* did; the except clause is only ever entered with an AutoReconnect; an
\* attempt is never followed by a sleep unless it raised AutoReconnect; and
\* when the first attempt raised such an error the method was invoked once
\* and nothing else happened.
C11_OtherErrorsPropagateAtOnce ==
    /\ []((e_raised # NoError /\ ~IsAutoReconnect(e_raised)) =>
            /\ e_pc = "idle"
            /\ e_result = Raise(e_raised)
            /\ e_hist[Len(e_hist)] = Called(e_args))
    /\ [](e_pc \in {"except", "final"} => IsAutoReconnect(e_raised))
    /\ [][(e_pc = "try" /\ e_hist = <<>>
            /\ e_raised' # NoError /\ ~IsAutoReconnect(e_raised'))
           => /\ e_hist' = <<Called(e_args)>>
              /\ e_pc' = "idle"
              /\ e_result' = Raise(e_raised')]_vars
    /\ [][(e_pc = "idle" /\ e_result.kind = "raise") =>
            (e_hist' = <<>> /\ e_pc' = "try")]_vars

\* C11 happens: after two sleeps the third attempt raised a plain
\* OperationFailure, which reached the caller.
C11_Witness ==
    /\ e_pc = "idle"
    /\ e_raised = [cls |-> "OperationFailure", msg |-> "not authorized"]
    /\ e_result = Raise(e_raised)
    /\ Len(SleepsOf(e_hist)) = 2
    /\ Len(CallsOf(e_hist)) = 3

\* The access that returned the held object, and the object it looked up.
LastAccess == held.obj.path[Len(held.obj.path)]

\* C12: whatever was obtained by a chain of accesses is what the rules give
\* for its last access: after a member access, an Executable around the
\* value when it is invokable and the name is listed, a MongoProxy around it
\* when it is invokable and the name is not listed, the value itself when it
\* is not invokable; after an indexed access, a MongoProxy around an
\* invokable item and the item itself otherwise.  It holds at every depth of
\* the chain, so a proxy obtained from a proxy applies the same rules; and
\* what an access returns is, or is built around, the object that the access
\* looked up on the object behind the proxy.
C12_AccessRules ==
    /\ [](held.obj.path # <<>> =>
            /\ held.kind =
                  IF LastAccess.op = "attr"
                  THEN IF ~HasCall(held.obj) THEN "raw"
                       ELSE IF LastAccess.key \in EXECUTABLE_MONGO_METHODS
                       THEN "Executable" ELSE "MongoProxy"
                  ELSE IF HasCall(held.obj) THEN "MongoProxy" ELSE "raw"
            /\ held.kind = "raw" => held = Raw(held.obj))
    /\ [][held' # held =>
            /\ held.kind = "MongoProxy"
            /\ \E op \in {"attr", "item"}, key \in AttrKeys \cup ItemKeys :
                   held'.obj.path = Append(held.obj.path, Access(op, key))]_vars

\* C12 happens: conn.users['users'].find gave an Executable around the
\* method found there.
C12_Witness ==
    /\ held.kind = "Executable"
    /\ held.obj.path = <<Access("attr", "users"), Access("item", "users"),
                         Access("attr", "find")>>

\* C13: the sleep before retry k of a round (k = 0 for the first) lasts
\* min(initial interval * 2^k, MAX_SLEEP) seconds, in round 1 and again from
\* the initial interval in round 2, and no sleep lasts more than MAX_SLEEP
\* seconds.
C13_SleepsDoubleUpToCap ==
    /\ last_sleep <= MAX_SLEEP
    /\ (pc = "reload" /\ attempts \in 1 .. AttemptsCap - 1) =>
           last_sleep = Min(initial_reconnect_interval * Pow2(attempts - 1),
                            MAX_SLEEP)

\* C14: a call ends in MongoReconnectFailure only at an AutoReconnect caught
\* with more time elapsed than the current budget.  Such a catch, with
\* disconnect_on_timeout set and no disconnect made yet, disconnects, starts
\* round 2 with the attempt counter reset, sleeps the initial interval,
\* makes the budget 2 * max_reconnect_time and goes on to another reload;
\* with disconnect_on_timeout unset, or after the disconnect (the budget is
\* then the doubled one), it ends the call in MongoReconnectFailure.  A
\* catch within the budget never ends the call and never disconnects.
C14_GiveUpOnlyOverBudget ==
    /\ [](disconnected =>
            /\ disconnect_on_timeout
            /\ round = 2
            /\ max_time = 2 * max_reconnect_time)
    /\ [](pc # "idle" /\ ~disconnected =>
            round = 1 /\ max_time = max_reconnect_time)
    /\ [][(pc # "idle" /\ result' = Raise(MongoReconnectFailure)) =>
            (pc = "except" /\ elapsed > max_time)]_vars
    /\ [][pc = "except" =>
            IF elapsed > max_time
            THEN IF disconnect_on_timeout /\ ~disconnected
                 THEN /\ disconnected'
                      /\ disconnects' = disconnects + 1
                      /\ round' = 2
                      /\ attempts' = 1
                      /\ last_sleep' = initial_reconnect_interval
                      /\ interval' = Min(2 * initial_reconnect_interval,
                                         MAX_SLEEP)
                      /\ max_time' = 2 * max_reconnect_time
                      /\ pc' = "reload"
                 ELSE /\ pc' = "idle"
                      /\ result' = Raise(MongoReconnectFailure)
            ELSE /\ pc' = "reload"
                 /\ disconnected' = disconnected
                 /\ disconnects' = disconnects
                 /\ max_time' = max_time]_vars
    /\ [][pc = "reload" => nfinds' = Bump(nfinds, CountCap)]_vars

\* C14 happens: in round 2, after the forced disconnect, an AutoReconnect
\* has been caught with the doubled budget exceeded.
C14_Witness ==
    /\ pc = "except"
    /\ disconnected
    /\ round = 2
    /\ max_time = 2 * MaxReconnectTime
    /\ elapsed > max_time

\* C15: once a call has raised MongoReconnectFailure, no next() returns a
\* record and no count() returns a count any more.
C15_FailedIsTerminal ==
    [](result = Raise(MongoReconnectFailure) => [](result.kind # "return"))

\* An error that is not AutoReconnect.
OtherError(e) == e # NoError /\ ~IsAutoReconnect(e)

\* C16: the except clause of the loop is only ever entered with an
\* AutoReconnect; whenever a reload or a re-attempt inside try_reconnect has
\* raised anything else (CursorNotFound, ExecutionTimeout and WTimeoutError
\* included), the call has ended with that very error; and the step in
\* which it is raised ends the call at once, so that there is no sleep, no
\* disconnect and no further reload, leaves the counter and the records
\* returned as they were, and issues no find beyond the one that failed.
C16_OnlyAutoReconnectRetriedInLoop ==
    /\ [](pc = "except" => IsAutoReconnect(loop_exc))
    /\ [](OtherError(loop_exc) => (pc = "idle" /\ result = Raise(loop_exc)))
    /\ [][(pc \in {"reload", "retry"} /\ OtherError(loop_exc')) =>
            /\ pc' = "idle"
            /\ result' = Raise(loop_exc')
            /\ counter' = counter
            /\ delivered' = delivered
            /\ cursor' = cursor
            /\ nfinds' = IF pc = "reload" THEN Bump(nfinds, CountCap)
                         ELSE nfinds]_vars

\* C16 happens: a next() that was recovering from AutoReconnect, one record
\* in, reloaded the cursor and got CursorNotFound on the re-attempt, which
\* reached the caller.
C16_Witness ==
    /\ pc = "idle"
    /\ get_next
    /\ IsAutoReconnect(exc)
    /\ loop_exc = [cls |-> "CursorNotFound", msg |-> ""]
    /\ result = Raise(loop_exc)
    /\ counter = 1
    /\ cursor.skip = 1

\* C17: in the cursor, a reload (the attempt that follows a caught error)
\* is only made once the logger has been called since the error was caught;
\* in the Executable, every invocation of the method but the first has a
\* log entry between it and the invocation before it, whose error was
\* caught.
C17_CaughtFailuresAreLogged ==
    /\ pc = "reload" => logged
    /\ \A j \in 2 .. Len(e_hist) :
           e_hist[j].ev = "call" =>
               \E i \in 1 .. j - 1 :
                   /\ e_hist[i].ev = "warning"
                   /\ \A m \in i + 1 .. j - 1 : e_hist[m].ev # "call"

\* The budget and the logger a root proxy was given: 60 seconds and the
\* module's logger when none was passed.
RootBudget ==
    IF root_wait_time = NoneArg THEN 60 ELSE root_wait_time
RootLogger ==
    IF root_logger = NoLogger THEN ModuleLogger ELSE root_logger

\* C18: for a root proxy built with a positive wait_time or with none, every
\* Executable obtained through a chain of accesses from it has the root's
\* budget as its wait_time and the root's logger as its logger.
C18_RootSettingsReachEveryWrapper ==
    (root_wait_time # 0 /\ held.kind = "Executable") =>
        /\ held.wait_time = RootBudget
        /\ held.logger = RootLogger

\* A call has ended by raising something other than the end of the
\* sequence.
FailureRaised ==
    pc = "idle" /\ result.kind = "raise" /\ result.err # StopIteration

\* C19: between calls, and so after a next() that raised (straight from
\* _with_retry, out of the reconnect loop, or as MongoReconnectFailure), the
\* backing cursor stands at the counter: the document it gives next, if
\* any, is the one at position counter.  The step in which a next() made
\* after a failure returns a record returns that document and moves the
\* counter by one; and so does every step that returns a record, a
\* recovering one included.
C19_PositionSurvivesFailure ==
    /\ []((pc = "idle" /\ HasNext(cursor)) =>
            CursorRecord(cursor) = Record(counter))
    /\ [][(FailureRaised /\ result'.kind = "return" /\ get_next') =>
            /\ result' = Return("record", Record(counter))
            /\ delivered' = Append(delivered, Record(counter))
            /\ counter' = counter + 1]_vars
    /\ [][delivered' # delivered =>
            /\ result' = Return("record", Record(counter))
            /\ delivered' = Append(delivered, Record(counter))
            /\ counter' = counter + 1]_vars

\* C19 happens: one record in, a next() has ended in MongoReconnectFailure,
\* and the cursor still has the second record to give.
C19_Witness ==
    /\ FailureRaised
    /\ get_next
    /\ result.err = MongoReconnectFailure
    /\ delivered = <<Record(0)>>
    /\ counter = 1
    /\ HasNext(cursor)

\* C20: a wrapper built with wait_time = 0 never sleeps and invokes the
\* method at most twice in a call: an AutoReconnect caught at the first
\* attempt is followed by the final call, and nothing is logged or slept in
\* between.
C20_ZeroBudgetIsZero ==
    wait_time_arg = 0 =>
        /\ SleepsOf(e_hist) = <<>>
        /\ Len(CallsOf(e_hist)) <= 2
        /\ e_pc = "except" => BudgetSpent

====
